---------------------------- MODULE Spec2Model ----------------------------
(* State-machine model of src/queue.c: a FIFO data queue and a registry   *)
(* of waiting consumer threads (one condition variable per record), both  *)
(* guarded by dataQueue.synchronization_lock.                             *)
(*                                                                        *)
(* Every thread moves through the positions of the operation it is in.    *)
(* A step is one lock acquisition, or the code between two points where   *)
(* the lock is taken, released or waited for; the reads enqueue makes     *)
(* after mtx_unlock (line 139, line 142) are steps of their own.          *)
(*                                                                        *)
(* The two linked lists are kept as heaps (elems, nodes) of records with  *)
(* explicit next / successor links; 0 is the null pointer. A record that  *)
(* was free()d keeps its slot and is flagged freed.                       *)
(*                                                                        *)
(* cnd_wait returns when its condition is signalled and, as the C library *)
(* allows, also without any signal (SpuriousWake). SpecSignal leaves      *)
(* those returns out.                                                     *)
(*                                                                        *)
(* Undefined behaviour: a null dereference ends the process (Fault); a    *)
(* read of a freed record yields any value; thrd_join on the unset global *)
(* current_thread faults or fails; mtx_lock on the destroyed mutex does   *)
(* not block.                                                             *)
EXTENDS Integers, Sequences, FiniteSets, TLC

(* ---------------------------------------------------------------------- *)
(* Bounds of the model                                                     *)
(* ---------------------------------------------------------------------- *)
MaxItems == 2        \* enqueue calls made in one run
MaxNodes == 4        \* QueueNode records allocated in one run
MaxSpurious == 2     \* returns of cnd_wait that no cnd_signal caused
MaxCalls == 2        \* dequeue and tryDequeue calls made in one run

Consumers == {"c1", "c2", "c3"}
Producers == {"p1"}
Destroyers == {"d1"}
Threads == Consumers \cup Producers \cup Destroyers

NULL == 0
NoThread == "none"
NotFound == 0 - 1

VARIABLES
    dataQueue,      \* struct DataQueue: head, tail, total_size, items_processed, items_enqueued
    threadQueue,    \* struct ThreadQueue: head, tail, waiting_thread_count
    elems,          \* heap of struct DataElement, in allocation order
    nodes,          \* heap of struct QueueNode, in allocation order
    lock,           \* owner of dataQueue.synchronization_lock
    mtxDestroyed,   \* mtx_destroy has run on the lock
    crashed,        \* the process has faulted
    pc,             \* position of every thread
    cur,            \* dequeue's local currentThreadNode
    first,          \* history: first record the running dequeue call registered
    overlap,        \* history: some call started while another was in flight
    arg,            \* enqueue's parameter data
    issued,         \* payloads handed to enqueue so far
    spurious,       \* cnd_wait returns not caused by a signal so far
    ncalls,         \* dequeue and tryDequeue calls made so far
    returned,       \* results returned by dequeue / tryDequeue, in order
    shutdown        \* destroyQueue has been called

vars == <<dataQueue, threadQueue, elems, nodes, lock, mtxDestroyed, crashed,
          pc, cur, first, overlap, arg, issued, spurious, ncalls, returned,
          shutdown>>

dataVars == <<dataQueue, elems>>
registryVars == <<threadQueue, nodes>>
localVars == <<cur, first, arg>>
budgetVars == <<issued, spurious, ncalls>>

(* ---------------------------------------------------------------------- *)
(* initQueue                                                               *)
(* ---------------------------------------------------------------------- *)
initQueue ==
    /\ dataQueue = [head |-> NULL, tail |-> NULL, total_size |-> 0,
                    items_processed |-> 0, items_enqueued |-> 0]
    /\ threadQueue = [head |-> NULL, tail |-> NULL, waiting_thread_count |-> 0]
    /\ lock = NoThread
    /\ mtxDestroyed = FALSE

Init ==
    /\ initQueue
    /\ elems = <<>>
    /\ nodes = <<>>
    /\ crashed = FALSE
    /\ pc = [t \in Threads |-> "idle"]
    /\ cur = [t \in Threads |-> NULL]
    /\ first = [t \in Threads |-> NULL]
    /\ overlap = FALSE
    /\ arg = [t \in Threads |-> 0]
    /\ issued = 0
    /\ spurious = 0
    /\ ncalls = 0
    /\ returned = <<>>
    /\ shutdown = FALSE

(* ---------------------------------------------------------------------- *)
(* The lock                                                                *)
(* ---------------------------------------------------------------------- *)
\* mtx_lock: blocks while another thread owns the lock. On a destroyed
\* mutex the call is undefined: it may lock as before or fail at once, so
\* the caller goes on in either case.
CanLock(t) == lock = NoThread \/ mtxDestroyed

mtx_lock(t) == IF lock = NoThread THEN t ELSE lock

mtx_unlock(t) == IF lock = t THEN NoThread ELSE lock

(* ---------------------------------------------------------------------- *)
(* Condition variables: one per QueueNode                                  *)
(* ---------------------------------------------------------------------- *)
\* the threads suspended in cnd_wait on the condition of node n
Suspended(n) == {t \in Threads : pc[t] = "dq_wait" /\ cur[t] = n}

\* cnd_signal on the condition of node n: every thread in ws is released
\* from cnd_wait and has to take the lock again
Wake(p, ws) == [t \in Threads |-> IF t \in ws THEN "dq_woken" ELSE p[t]]


(* ---------------------------------------------------------------------- *)
(* Data queue helpers                                                      *)
(* ---------------------------------------------------------------------- *)
Payload(k) == k + 100

\* createDataElement: a fresh element carrying data, stamped with the
\* current items_enqueued
createDataElement(data) ==
    [next |-> NULL, index |-> dataQueue.items_enqueued, pointer |-> data,
     freed |-> FALSE]

\* mutant: total_size is not counted up
appendToEmptyDataQueue_NoSize(e) ==
    [dataQueue EXCEPT !.head = e, !.tail = e, !.items_enqueued = @ + 1]

\* appendToEmptyDataQueue: e is the id of the new element
appendToEmptyDataQueue(e) ==
    [dataQueue EXCEPT !.head = e, !.tail = e,
                      !.total_size = @ + 1, !.items_enqueued = @ + 1]

\* mutant: the populated queue is treated as an empty one, head moves too
appendToPopulatedDataQueue_AsEmpty(e) == appendToEmptyDataQueue(e)

\* appendToPopulatedDataQueue: head stays, tail moves to e
appendToPopulatedDataQueue(e) ==
    [dataQueue EXCEPT !.tail = e,
                      !.total_size = @ + 1, !.items_enqueued = @ + 1]

\* the heap after the append of element e (record el)
LinkDataElement(e, el) ==
    IF dataQueue.total_size = 0
    THEN Append(elems, el)
    ELSE [Append(elems, el) EXCEPT ![dataQueue.tail].next = e]

\* appendToDataQueue (defined in the source as addToDataQueue)
appendToDataQueue(e) ==
    IF dataQueue.total_size = 0
    THEN appendToEmptyDataQueue(e)
    ELSE appendToPopulatedDataQueue(e)

\* mutant: head is not advanced
PopFront_KeepsHead ==
    [dataQueue EXCEPT !.total_size = @ - 1, !.items_processed = @ + 1]

\* the removal of the front element, shared by dequeue and tryDequeue
PopFront ==
    LET elementRemoved == dataQueue.head
        nxt == elems[elementRemoved].next
    IN  [dataQueue EXCEPT !.head = nxt,
                          !.tail = IF nxt = NULL THEN NULL ELSE @,
                          !.total_size = @ - 1,
                          !.items_processed = @ + 1]

\* removeAllDataElements: counters and pointers after the sweep
removeAllDataElements ==
    [dataQueue EXCEPT !.head = NULL, !.tail = NULL, !.total_size = 0,
                      !.items_processed = 0, !.items_enqueued = 0]

RECURSIVE DataChain(_)
\* ids of the elements linked from element e on
DataChain(e) == IF e = NULL THEN <<>> ELSE <<e>> \o DataChain(elems[e].next)

(* ---------------------------------------------------------------------- *)
(* Waiter registry helpers                                                 *)
(* ---------------------------------------------------------------------- *)
RECURSIVE ThreadChain(_)
\* ids of the records linked from record n on
ThreadChain(n) == IF n = NULL THEN <<>> ELSE <<n>> \o ThreadChain(nodes[n].successor)

RECURSIVE ScanFrom(_, _)
ScanFrom(n, t) ==
    IF n = NULL THEN NotFound
    ELSE IF nodes[n].thread_id = t THEN nodes[n].waiting_on_index
    ELSE ScanFrom(nodes[n].successor, t)

\* fetchFirstWaitConditionStatus: waiting_on_index of the first record of
\* the calling thread, or -1
fetchFirstWaitConditionStatus(t) == ScanFrom(threadQueue.head, t)

\* checkIfThreadShouldYield (YieldTestFaults covers the null head at line 226)
checkIfThreadShouldYield(t) ==
    IF dataQueue.total_size = 0 THEN TRUE
    ELSE IF threadQueue.waiting_thread_count <= dataQueue.total_size THEN FALSE
    ELSE fetchFirstWaitConditionStatus(t) > elems[dataQueue.head].index

\* createThreadQueueNode
createThreadQueueNode(t) ==
    [thread_id |-> t, successor |-> NULL, terminated |-> FALSE,
     waiting_on_index |-> dataQueue.items_enqueued + threadQueue.waiting_thread_count,
     freed |-> FALSE,
     appended_before |-> Len(elems)]    \* history: elements appended so far

\* appendToEmptyThreadQueue
appendToEmptyThreadQueue(n) ==
    [threadQueue EXCEPT !.head = n, !.tail = n, !.waiting_thread_count = @ + 1]

\* appendToPopulatedThreadQueue
appendToPopulatedThreadQueue(n) ==
    [threadQueue EXCEPT !.tail = n, !.waiting_thread_count = @ + 1]

\* appendToThreadQueue
appendToThreadQueue(n) ==
    IF threadQueue.waiting_thread_count = 0
    THEN appendToEmptyThreadQueue(n)
    ELSE appendToPopulatedThreadQueue(n)

\* dequeueQueueNode: unlink the front record
dequeueQueueNode ==
    LET nodeBeingRemoved == threadQueue.head
        nxt == nodes[nodeBeingRemoved].successor
    IN  [threadQueue EXCEPT !.head = nxt,
                            !.tail = IF nxt = NULL THEN NULL ELSE @,
                            !.waiting_thread_count = @ - 1]



(* ---------------------------------------------------------------------- *)
(* Frames                                                                  *)
(* ---------------------------------------------------------------------- *)
Running == ~crashed

\* a fault (null dereference, failed join on an invalid thread) ends the
\* process
Fault ==
    /\ crashed' = TRUE
    /\ UNCHANGED <<dataVars, registryVars, lock, mtxDestroyed, pc, localVars, overlap,
                   budgetVars, returned, shutdown>>

Goto(t, l) == pc' = [pc EXCEPT ![t] = l]

\* a call starts while another thread is inside a call
Overlaps(t) == overlap \/ \E u \in Threads \ {t} : pc[u] # "idle"

\* mtx_lock of any operation: from position l to position m
Acquire(t, l, m) ==
    /\ Running
    /\ pc[t] = l
    /\ CanLock(t)
    /\ lock' = mtx_lock(t)
    /\ Goto(t, m)
    /\ UNCHANGED <<dataVars, registryVars, mtxDestroyed, crashed, localVars, overlap,
                   budgetVars, returned, shutdown>>

(* ---------------------------------------------------------------------- *)
(* enqueue                                                                 *)
(* ---------------------------------------------------------------------- *)
CallEnqueue(t) ==
    /\ Running
    /\ pc[t] = "idle"
    /\ ~shutdown
    /\ issued < MaxItems
    /\ issued' = issued + 1
    /\ arg' = [arg EXCEPT ![t] = Payload(issued + 1)]
    /\ overlap' = Overlaps(t)
    /\ Goto(t, "enq_lock")
    /\ UNCHANGED <<dataVars, registryVars, lock, mtxDestroyed, crashed, cur, first,
                   spurious, ncalls, returned, shutdown>>

EnqueueLock(t) == Acquire(t, "enq_lock", "enq_append")

\* lines 135-137: create the element, append it, unlock
EnqueueAppend(t) ==
    /\ Running
    /\ pc[t] = "enq_append"
    /\ LET e == Len(elems) + 1
           new_element == createDataElement(arg[t])
       IN  /\ elems' = LinkDataElement(e, new_element)
           /\ dataQueue' = appendToDataQueue(e)
    /\ lock' = mtx_unlock(t)
    /\ Goto(t, "enq_size")
    /\ UNCHANGED <<registryVars, mtxDestroyed, crashed, localVars, overlap, budgetVars,
                   returned, shutdown>>

\* line 139, left operand: total_size is read without the lock
EnqueueReadSize(t) ==
    /\ Running
    /\ pc[t] = "enq_size"
    /\ Goto(t, IF dataQueue.total_size > 0 THEN "enq_waiting" ELSE "idle")
    /\ UNCHANGED <<dataVars, registryVars, lock, mtxDestroyed, crashed, localVars,
                   overlap, budgetVars, returned, shutdown>>

\* line 139, right operand: waiting_thread_count is read without the lock
EnqueueReadWaiting(t) ==
    /\ Running
    /\ pc[t] = "enq_waiting"
    /\ Goto(t, IF threadQueue.waiting_thread_count > 0 THEN "enq_signal" ELSE "idle")
    /\ UNCHANGED <<dataVars, registryVars, lock, mtxDestroyed, crashed, localVars,
                   overlap, budgetVars, returned, shutdown>>

\* line 142: cnd_signal on the condition of threadQueue.head, read without
\* the lock; a null head faults
EnqueueSignal(t) ==
    /\ Running
    /\ pc[t] = "enq_signal"
    /\ IF threadQueue.head = NULL
       THEN Fault
       ELSE /\ pc' = [Wake(pc, Suspended(threadQueue.head)) EXCEPT ![t] = "idle"]
            /\ UNCHANGED <<dataVars, registryVars, lock, mtxDestroyed, crashed, localVars,
                           overlap, budgetVars, returned, shutdown>>

(* ---------------------------------------------------------------------- *)
(* dequeue                                                                 *)
(* ---------------------------------------------------------------------- *)
CallDequeue(t) ==
    /\ Running
    /\ pc[t] = "idle"
    /\ ~shutdown
    /\ ncalls < MaxCalls
    /\ ncalls' = ncalls + 1
    /\ cur' = [cur EXCEPT ![t] = NULL]
    /\ first' = [first EXCEPT ![t] = NULL]
    /\ overlap' = Overlaps(t)
    /\ Goto(t, "dq_lock")
    /\ UNCHANGED <<dataVars, registryVars, lock, mtxDestroyed, crashed, arg, issued,
                   spurious, returned, shutdown>>

DequeueLock(t) == Acquire(t, "dq_lock", "dq_check")

\* enqueueQueueNode: the heap after record n (nd) is appended; the link is
\* written through threadQueue.tail when the count is not 0
enqueueQueueNode(n, nd) ==
    IF threadQueue.waiting_thread_count = 0
    THEN Append(nodes, nd)
    ELSE [Append(nodes, nd) EXCEPT ![threadQueue.tail].successor = n]

\* appendToPopulatedThreadQueue writes through threadQueue.tail: a null tail
\* faults, a tail that was freed is a write to freed memory
TailIsNull == threadQueue.waiting_thread_count > 0 /\ threadQueue.tail = NULL

TailIsFreed ==
    /\ threadQueue.waiting_thread_count > 0
    /\ threadQueue.tail # NULL
    /\ nodes[threadQueue.tail].freed

\* lines 183-185: register a new record, suspend on its condition (which
\* releases the lock)
DequeueYield(t) ==
    \/ /\ TailIsNull \/ TailIsFreed
       /\ Fault
    \/ /\ ~TailIsNull
       /\ LET n == Len(nodes) + 1
              newQueueNode == createThreadQueueNode(t)
          IN  /\ nodes' = enqueueQueueNode(n, newQueueNode)
              /\ threadQueue' = appendToThreadQueue(n)
              /\ cur' = [cur EXCEPT ![t] = n]
              /\ first' = [first EXCEPT ![t] = IF @ = NULL THEN n ELSE @]
       /\ lock' = mtx_unlock(t)
       /\ Goto(t, "dq_wait")
       /\ UNCHANGED <<dataVars, mtxDestroyed, crashed, arg, overlap, budgetVars,
                      returned, shutdown>>

\* line 226 reads dataQueue.head->index: a null head faults
YieldTestFaults ==
    /\ dataQueue.total_size > 0
    /\ threadQueue.waiting_thread_count > dataQueue.total_size
    /\ dataQueue.head = NULL

\* line 181: the loop test
DequeueCheck(t) ==
    /\ Running
    /\ pc[t] = "dq_check"
    /\ IF YieldTestFaults
       THEN Fault
       ELSE IF checkIfThreadShouldYield(t)
       THEN /\ Len(nodes) < MaxNodes
            /\ DequeueYield(t)
       ELSE /\ Goto(t, "dq_pop")
            /\ UNCHANGED <<dataVars, registryVars, lock, mtxDestroyed, crashed, localVars,
                           overlap, budgetVars, returned, shutdown>>

\* cnd_wait may return without any cnd_signal
SpuriousWake(t) ==
    /\ Running
    /\ pc[t] = "dq_wait"
    /\ spurious < MaxSpurious
    /\ spurious' = spurious + 1
    /\ Goto(t, "dq_woken")
    /\ UNCHANGED <<dataVars, registryVars, lock, mtxDestroyed, crashed, localVars,
                   overlap, issued, ncalls, returned, shutdown>>

\* cnd_wait takes the lock again before it returns
DequeueRelock(t) == Acquire(t, "dq_woken", "dq_term")

\* the values line 186 can read from currentThreadNode->terminated: the
\* stored flag, or anything when the record was freed by another thread
ReadTerminated(n) ==
    IF nodes[n].freed THEN BOOLEAN ELSE {nodes[n].terminated}

\* lines 186-194: the terminated path unlinks and frees threadQueue.head (a
\* null head faults) and joins the never-assigned global current_thread,
\* which faults or fails
DequeueTerminated(t) ==
    /\ Running
    /\ pc[t] = "dq_term"
    /\ \E term \in ReadTerminated(cur[t]) :
         IF term
         THEN IF threadQueue.head = NULL
              THEN Fault
              ELSE \/ Fault
                   \/ LET previousHead == threadQueue.head
                      IN  /\ threadQueue' = [threadQueue EXCEPT
                                 !.head = nodes[previousHead].successor]
                          /\ nodes' = [nodes EXCEPT ![previousHead].freed = TRUE]
                          /\ Goto(t, "dq_front")
                          /\ UNCHANGED <<dataVars, lock, mtxDestroyed, crashed,
                                         localVars, overlap, budgetVars, returned,
                                         shutdown>>
         ELSE /\ Goto(t, "dq_front")
              /\ UNCHANGED <<dataVars, registryVars, lock, mtxDestroyed, crashed,
                             localVars, overlap, budgetVars, returned, shutdown>>

\* line 195: the test that guards dequeueQueueNode
FrontIsDue(t) ==
    /\ dataQueue.head # NULL
    /\ fetchFirstWaitConditionStatus(t) <= elems[dataQueue.head].index

\* lines 195-198: pop the front record of the registry when the calling
\* thread's index is due; dequeueQueueNode on an empty registry faults
DequeueFront(t) ==
    /\ Running
    /\ pc[t] = "dq_front"
    /\ IF FrontIsDue(t)
       THEN IF threadQueue.head = NULL
            THEN Fault
            ELSE /\ threadQueue' = dequeueQueueNode
                 /\ nodes' = [nodes EXCEPT ![threadQueue.head].freed = TRUE]
                 /\ Goto(t, "dq_check")
                 /\ UNCHANGED <<dataVars, lock, mtxDestroyed, crashed, localVars,
                                overlap, budgetVars, returned, shutdown>>
       ELSE /\ Goto(t, "dq_check")
            /\ UNCHANGED <<dataVars, registryVars, lock, mtxDestroyed, crashed, localVars,
                           overlap, budgetVars, returned, shutdown>>

\* what a successful dequeue or tryDequeue hands back: the payload of the
\* front element, with (history) the element's index, the first record the
\* call registered and the number of elements appended so far
Result(t, o) ==
    [thr |-> t, op |-> o, ok |-> TRUE,
     val |-> elems[dataQueue.head].pointer,
     index |-> elems[dataQueue.head].index,
     node |-> IF o = "dequeue" THEN first[t] ELSE NULL,
     appended |-> Len(elems)]

\* lines 201-212: unlink the front element, unlock, free it, return its data
DequeuePop(t) ==
    /\ Running
    /\ pc[t] = "dq_pop"
    /\ IF dataQueue.head = NULL
       THEN Fault
       ELSE /\ dataQueue' = PopFront
            /\ elems' = [elems EXCEPT ![dataQueue.head].freed = TRUE]
            /\ lock' = mtx_unlock(t)
            /\ returned' = Append(returned, Result(t, "dequeue"))
            /\ Goto(t, "idle")
            /\ UNCHANGED <<registryVars, mtxDestroyed, crashed, localVars, overlap,
                           budgetVars, shutdown>>

(* ---------------------------------------------------------------------- *)
(* tryDequeue                                                              *)
(* ---------------------------------------------------------------------- *)
CallTryDequeue(t) ==
    /\ Running
    /\ pc[t] = "idle"
    /\ ~shutdown
    /\ ncalls < MaxCalls
    /\ ncalls' = ncalls + 1
    /\ overlap' = Overlaps(t)
    /\ Goto(t, "try_lock")
    /\ UNCHANGED <<dataVars, registryVars, lock, mtxDestroyed, crashed, localVars,
                   issued, spurious, returned, shutdown>>

\* line 293: tryDequeue takes the lock with mtx_lock
TryDequeueLock(t) == Acquire(t, "try_lock", "try_body")

Failure(t) ==
    [thr |-> t, op |-> "tryDequeue", ok |-> FALSE, val |-> NULL,
     index |-> NotFound, node |-> NULL, appended |-> Len(elems)]

\* mutant: on an empty queue the call falls into dequeue's wait loop
TryDequeueBody_Waits(t) ==
    /\ Running
    /\ pc[t] = "try_body"
    /\ IF dataQueue.total_size = 0 \/ dataQueue.head = NULL
       THEN /\ Goto(t, "dq_check")
            /\ UNCHANGED <<dataVars, lock, returned>>
       ELSE /\ dataQueue' = PopFront
            /\ elems' = [elems EXCEPT ![dataQueue.head].freed = TRUE]
            /\ returned' = Append(returned, Result(t, "tryDequeue"))
            /\ lock' = mtx_unlock(t)
            /\ Goto(t, "idle")
    /\ UNCHANGED <<registryVars, mtxDestroyed, crashed, localVars, overlap,
                   budgetVars, shutdown>>

\* mutant: a miss is counted as a processed item
TryDequeueBody_CountsMiss(t) ==
    /\ Running
    /\ pc[t] = "try_body"
    /\ IF dataQueue.total_size = 0 \/ dataQueue.head = NULL
       THEN /\ returned' = Append(returned, Failure(t))
            /\ dataQueue' = [dataQueue EXCEPT !.items_processed = @ + 1]
            /\ UNCHANGED elems
       ELSE /\ dataQueue' = PopFront
            /\ elems' = [elems EXCEPT ![dataQueue.head].freed = TRUE]
            /\ returned' = Append(returned, Result(t, "tryDequeue"))
    /\ lock' = mtx_unlock(t)
    /\ Goto(t, "idle")
    /\ UNCHANGED <<registryVars, mtxDestroyed, crashed, localVars, overlap,
                   budgetVars, shutdown>>

\* lines 294-310
TryDequeueBody(t) ==
    /\ Running
    /\ pc[t] = "try_body"
    /\ IF dataQueue.total_size = 0 \/ dataQueue.head = NULL
       THEN /\ returned' = Append(returned, Failure(t))
            /\ UNCHANGED dataVars
       ELSE /\ dataQueue' = PopFront
            /\ elems' = [elems EXCEPT ![dataQueue.head].freed = TRUE]
            /\ returned' = Append(returned, Result(t, "tryDequeue"))
    /\ lock' = mtx_unlock(t)
    /\ Goto(t, "idle")
    /\ UNCHANGED <<registryVars, mtxDestroyed, crashed, localVars, overlap, budgetVars,
                   shutdown>>

(* ---------------------------------------------------------------------- *)
(* destroyQueue                                                            *)
(* ---------------------------------------------------------------------- *)
CallDestroy(t) ==
    /\ Running
    /\ pc[t] = "idle"
    /\ ~shutdown
    /\ shutdown' = TRUE
    /\ overlap' = Overlaps(t)
    /\ Goto(t, "ds_lock")
    /\ UNCHANGED <<dataVars, registryVars, lock, mtxDestroyed, crashed, localVars,
                   budgetVars, returned>>

DestroyLock(t) == Acquire(t, "ds_lock", "ds_remove")

InChain(x, chain) == \E i \in 1..Len(chain) : chain[i] = x

\* line 92: removeAllDataElements frees every element linked from head
DestroyRemove(t) ==
    /\ Running
    /\ pc[t] = "ds_remove"
    /\ LET chain == DataChain(dataQueue.head)
       IN  elems' = [e \in 1..Len(elems) |->
                        IF InChain(e, chain)
                        THEN [elems[e] EXCEPT !.freed = TRUE]
                        ELSE elems[e]]
    /\ dataQueue' = removeAllDataElements
    /\ Goto(t, "ds_teardown")
    /\ UNCHANGED <<registryVars, lock, mtxDestroyed, crashed, localVars, overlap,
                   budgetVars, returned, shutdown>>

\* mutant: the waiting count survives the walk
teardownThreadQueue_KeepsCount ==
    [threadQueue EXCEPT !.head = NULL, !.tail = NULL]

\* teardownThreadQueue: registry fields after the walk
teardownThreadQueue ==
    [threadQueue EXCEPT !.head = NULL, !.tail = NULL, !.waiting_thread_count = 0]

\* lines 94-96: every record linked from head is marked terminated and its
\* condition signalled; the records are not freed; then the lock is released
DestroyTeardown(t) ==
    /\ Running
    /\ pc[t] = "ds_teardown"
    /\ LET chain == ThreadChain(threadQueue.head)
           woken == {u \in Threads : pc[u] = "dq_wait" /\ InChain(cur[u], chain)}
       IN  /\ nodes' = [n \in 1..Len(nodes) |->
                           IF InChain(n, chain)
                           THEN [nodes[n] EXCEPT !.terminated = TRUE]
                           ELSE nodes[n]]
           /\ pc' = [Wake(pc, woken) EXCEPT ![t] = "ds_mtx"]
    /\ threadQueue' = teardownThreadQueue
    /\ lock' = mtx_unlock(t)
    /\ UNCHANGED <<dataVars, mtxDestroyed, crashed, localVars, overlap, budgetVars,
                   returned, shutdown>>

\* line 98: mtx_destroy
DestroyMutex(t) ==
    /\ Running
    /\ pc[t] = "ds_mtx"
    /\ mtxDestroyed' = TRUE
    /\ Goto(t, "idle")
    /\ UNCHANGED <<dataVars, registryVars, lock, crashed, localVars, overlap, budgetVars,
                   returned, shutdown>>

(* ---------------------------------------------------------------------- *)
(* Observers                                                               *)
(* ---------------------------------------------------------------------- *)
size == dataQueue.total_size

waiting == threadQueue.waiting_thread_count

visited == dataQueue.items_processed

(* ---------------------------------------------------------------------- *)
(* Specifications                                                          *)
(* ---------------------------------------------------------------------- *)
ProducerStep ==
    \E t \in Producers :
        \/ CallEnqueue(t)
        \/ EnqueueLock(t)
        \/ EnqueueAppend(t)
        \/ EnqueueReadSize(t)
        \/ EnqueueReadWaiting(t)
        \/ EnqueueSignal(t)

ConsumerStep ==
    \E t \in Consumers :
        \/ CallDequeue(t)
        \/ DequeueLock(t)
        \/ DequeueCheck(t)
        \/ DequeueRelock(t)
        \/ DequeueTerminated(t)
        \/ DequeueFront(t)
        \/ DequeuePop(t)
        \/ CallTryDequeue(t)
        \/ TryDequeueLock(t)
        \/ TryDequeueBody(t)

SpuriousStep == \E t \in Consumers : SpuriousWake(t)

DestroyStep ==
    \E t \in Destroyers :
        \/ CallDestroy(t)
        \/ DestroyLock(t)
        \/ DestroyRemove(t)
        \/ DestroyTeardown(t)
        \/ DestroyMutex(t)

\* every operation, with shutdown and with returns of cnd_wait that no
\* signal caused
Next == ProducerStep \/ ConsumerStep \/ SpuriousStep \/ DestroyStep

Spec == Init /\ [][Next]_vars

\* the queue in service: no destroyQueue
NextRun == ProducerStep \/ ConsumerStep \/ SpuriousStep

SpecRun == Init /\ [][NextRun]_vars

\* the queue in service, cnd_wait returning only on cnd_signal
NextSignal == ProducerStep \/ ConsumerStep

SpecSignal == Init /\ [][NextSignal]_vars

\* what thread t does once it is inside a call: every step but the calls
\* themselves and the returns of cnd_wait that no signal caused
Progress(t) ==
    \/ EnqueueLock(t)
    \/ EnqueueAppend(t)
    \/ EnqueueReadSize(t)
    \/ EnqueueReadWaiting(t)
    \/ EnqueueSignal(t)
    \/ DequeueLock(t)
    \/ DequeueCheck(t)
    \/ DequeueRelock(t)
    \/ DequeueTerminated(t)
    \/ DequeueFront(t)
    \/ DequeuePop(t)
    \/ TryDequeueLock(t)
    \/ TryDequeueBody(t)
    \/ DestroyLock(t)
    \/ DestroyRemove(t)
    \/ DestroyTeardown(t)
    \/ DestroyMutex(t)

\* the scheduler runs every thread that can take a step
Fairness == \A t \in Threads : WF_vars(Progress(t))

\* the queue in service under a fair scheduler, cnd_wait returning only on
\* cnd_signal
FairSignal == SpecSignal /\ Fairness

\* every operation but the returns of cnd_wait that no signal caused
NextShutdown == ProducerStep \/ ConsumerStep \/ DestroyStep

\* the queue with shutdown, cnd_wait returning only on cnd_signal
SpecShutdown == Init /\ [][NextShutdown]_vars

FairShutdown == SpecShutdown /\ Fairness

(* ---------------------------------------------------------------------- *)
(* Histories read by the properties                                        *)
(* ---------------------------------------------------------------------- *)
\* payloads in the order enqueue appended them
EnqLog == [i \in 1..Len(elems) |-> elems[i].pointer]

IsSuccess(r) == r.ok

\* the successful returns, in order
Delivered == SelectSeq(returned, IsSuccess)

InDequeue(t) ==
    pc[t] \in {"dq_lock", "dq_check", "dq_wait", "dq_woken", "dq_term",
               "dq_front", "dq_pop"}

(* ---------------------------------------------------------------------- *)
(* C1: two-consumer fairness                                               *)
(* ---------------------------------------------------------------------- *)
\* c1 and c2 are the only consumers, each in one dequeue call; c1 registered
\* first, c2 second, both before anything was enqueued; two items enqueued
TwoWaiters ==
    /\ ~shutdown
    /\ ncalls = 2
    /\ issued <= 2
    /\ Len(nodes) >= 2
    /\ nodes[1].thread_id = "c1" /\ nodes[1].appended_before = 0
    /\ nodes[2].thread_id = "c2" /\ nodes[2].appended_before = 0
    /\ first["c1"] = 1
    /\ first["c2"] = 2

\* C1: with c1 registered before c2 on an empty queue and two items enqueued
\* afterwards, every dequeue return by c1 carries the first enqueued item
\* and every return by c2 the second.
C1_TwoConsumerFairness ==
    TwoWaiters =>
        \A i \in 1..Len(returned) :
            /\ returned[i].thr = "c1" => returned[i].val = EnqLog[1]
            /\ returned[i].thr = "c2" => returned[i].val = EnqLog[2]

(* ---------------------------------------------------------------------- *)
(* C2: shutdown releases all waiters                                       *)
(* ---------------------------------------------------------------------- *)
DestroyCalled == \E d \in Destroyers : pc[d] = "ds_lock"

\* the model's budget of records is spent, so t cannot register again
OutOfNodes(t) == pc[t] = "dq_check" /\ Len(nodes) >= MaxNodes

\* C2: every consumer suspended in dequeue when destroyQueue is called
\* eventually returns from that dequeue call.
C2_ShutdownReleasesWaiters ==
    \A t \in Consumers :
        (pc[t] = "dq_wait" /\ DestroyCalled) ~> (pc[t] = "idle" \/ OutOfNodes(t))

(* ---------------------------------------------------------------------- *)
(* C3: no lost wakeup                                                      *)
(* ---------------------------------------------------------------------- *)
\* N consumers registered on the empty queue before anything was appended,
\* no other consumer call was made, and N enqueue calls were issued
WaitersThenItems ==
    /\ ~shutdown
    /\ Len(nodes) > 0
    /\ ncalls = Len(nodes)
    /\ issued = Len(nodes)
    /\ \A i \in 1..Len(nodes) : nodes[i].appended_before = 0

AllReturned == \A t \in Consumers : pc[t] = "idle"

\* C3: N consumers suspended on the empty queue and N items enqueued
\* afterwards, with no other consumer: every one of the N calls returns.
C3_NoLostWakeup == WaitersThenItems ~> (AllReturned \/ ~WaitersThenItems)

(* ---------------------------------------------------------------------- *)
(* C4: FIFO order                                                          *)
(* ---------------------------------------------------------------------- *)
IsPrefix(a, b) == Len(a) <= Len(b) /\ \A i \in 1..Len(a) : a[i] = b[i]

DeliveredVals == [i \in 1..Len(Delivered) |-> Delivered[i].val]

\* C4: when no call ever ran concurrently with another, the payloads
\* returned so far are, in order, the first payloads that were enqueued.
C4_FifoOrder == (~overlap /\ ~shutdown) => IsPrefix(DeliveredVals, EnqLog)

\* every enqueue completed, then sequential dequeue calls returned all items
C4_Witness ==
    /\ ~overlap /\ ~shutdown
    /\ Len(returned) = MaxItems
    /\ \A i \in 1..Len(returned) :
           /\ returned[i].op = "dequeue"
           /\ returned[i].appended = MaxItems
    /\ DeliveredVals = EnqLog

(* ---------------------------------------------------------------------- *)
(* C5: exactly-once delivery                                               *)
(* ---------------------------------------------------------------------- *)
\* C5: no payload is returned by two successful calls, and once as many
\* calls have succeeded as items were enqueued the queue size is 0 and every
\* enqueued payload has been returned.
C5_ExactlyOnce ==
    ~shutdown =>
        /\ \A i, j \in 1..Len(Delivered) :
               i # j => Delivered[i].val # Delivered[j].val
        /\ Len(Delivered) = Len(elems) =>
               /\ size = 0
               /\ {DeliveredVals[i] : i \in 1..Len(Delivered)}
                      = {EnqLog[i] : i \in 1..Len(elems)}

\* concurrent calls: one item left through dequeue, one through tryDequeue
C5_Witness ==
    /\ overlap /\ ~shutdown
    /\ Len(elems) = 2
    /\ Len(Delivered) = 2
    /\ \E i, j \in 1..2 :
           Delivered[i].op = "dequeue" /\ Delivered[j].op = "tryDequeue"

(* ---------------------------------------------------------------------- *)
(* C6: ordering guarantee                                                  *)
(* ---------------------------------------------------------------------- *)
\* position in the enqueue order of the element that carried payload v
PosOf(v) == CHOOSE e \in 1..Len(elems) : elems[e].pointer = v

\* r is the return of a dequeue call that had registered as a waiter
WaitedReturn(r) == r.ok /\ r.op = "dequeue" /\ r.node # NULL

\* C6: a consumer that registered later never returns with an item while a
\* consumer that registered earlier is still in its dequeue call, and of two
\* returns the one of the earlier registration carries the earlier item.
C6_OrderingGuarantee ==
    ~shutdown =>
        \A i \in 1..Len(returned) :
            WaitedReturn(returned[i]) =>
                /\ \A a \in Consumers :
                       ~(InDequeue(a) /\ first[a] # NULL
                            /\ first[a] < returned[i].node)
                /\ \A j \in 1..Len(returned) :
                       (WaitedReturn(returned[j])
                            /\ returned[j].node < returned[i].node)
                           => PosOf(returned[j].val) < PosOf(returned[i].val)

(* ---------------------------------------------------------------------- *)
(* C7: no stealing by a late arrival                                       *)
(* ---------------------------------------------------------------------- *)
NotRegistered(t) == fetchFirstWaitConditionStatus(t) = NotFound

\* C7: a thread in dequeue that holds no record in the registry leaves the
\* loop test towards the pop only when there are more items than registered
\* waiters.
C7_NoStealing ==
    \A t \in Consumers :
        (pc[t] = "dq_pop" /\ NotRegistered(t) /\ first[t] = NULL) =>
            threadQueue.waiting_thread_count < dataQueue.total_size

Last(s) == s[Len(s)]

\* C9: on an empty queue tryDequeue returns failure and changes neither the
\* item queue nor the registry nor any counter; on a non-empty queue it
\* returns the payload of the front element (the one dequeue pops), removes
\* that element, and counts size down and visited up by one.
C9_TryDequeueEffect ==
    [][\A t \in Consumers :
          (pc[t] = "try_body" /\ pc'[t] # "try_body") =>
              IF dataQueue.total_size = 0
              THEN /\ returned' = Append(returned, Failure(t))
                   /\ UNCHANGED <<dataQueue, threadQueue, elems, nodes>>
              ELSE /\ Len(returned') = Len(returned) + 1
                   /\ Last(returned').ok
                   /\ Last(returned').thr = t
                   /\ Last(returned').val = Result(t, "dequeue").val
                   /\ Last(returned').val = elems[dataQueue.head].pointer
                   /\ DataChain(dataQueue'.head) = Tail(DataChain(dataQueue.head))
                   /\ size' = size - 1
                   /\ visited' = visited + 1
                   /\ dataQueue'.items_enqueued = dataQueue.items_enqueued
                   /\ UNCHANGED <<threadQueue, nodes>>]_vars

\* one tryDequeue missed on the empty queue and one took an item
C9_Witness ==
    /\ ~shutdown
    /\ \E i, j \in 1..Len(returned) :
           /\ returned[i].op = "tryDequeue" /\ ~returned[i].ok
           /\ returned[j].op = "tryDequeue" /\ returned[j].ok

(* ---------------------------------------------------------------------- *)
(* C10: counter consistency                                                *)
(* ---------------------------------------------------------------------- *)
\* C10: whenever no thread holds the lock, visited + size is the number of
\* items enqueued so far, size is the number of linked elements, and head
\* and tail are null exactly when size is 0.
C10_CounterConsistency ==
    (lock = NoThread /\ ~shutdown) =>
        /\ visited + size = Len(elems)
        /\ visited + size = dataQueue.items_enqueued
        /\ size = Len(DataChain(dataQueue.head))
        /\ dataQueue.head = NULL <=> size = 0
        /\ dataQueue.tail = NULL <=> size = 0

\* two items enqueued, one of them consumed, nobody in a critical section
C10_Witness ==
    /\ lock = NoThread /\ ~shutdown
    /\ size = 1
    /\ visited = 1

(* ---------------------------------------------------------------------- *)
(* C11: a waiter consumes the item of its index                            *)
(* ---------------------------------------------------------------------- *)
\* the records the running dequeue call of t has registered
RecordsOf(t) ==
    IF first[t] = NULL THEN {}
    ELSE {n \in first[t]..cur[t] : nodes[n].thread_id = t}

\* the waiting_on_index values t was given in the running dequeue call
IndicesOf(t) == {nodes[n].waiting_on_index : n \in RecordsOf(t)}

\* C11: when a dequeue call that registered as a waiter pops an item, the
\* item's sequence index is the waiting_on_index the call registered with.
C11_WaiterConsumesOwnIndex ==
    [][\A t \in Consumers :
          (pc[t] = "dq_pop" /\ pc'[t] = "idle" /\ first[t] # NULL) =>
              elems[dataQueue.head].index \in IndicesOf(t)]_vars

(* ---------------------------------------------------------------------- *)
(* C12: the terminated path leaves the wait loop                           *)
(* ---------------------------------------------------------------------- *)
\* t has returned from cnd_wait and its record carries the terminated flag
SeesTerminated(t) ==
    /\ pc[t] = "dq_term"
    /\ ~nodes[cur[t]].freed
    /\ nodes[cur[t]].terminated

\* C12: the step a woken consumer takes on a record marked terminated ends
\* the dequeue call: it dereferences no cleared head (no fault), returns to
\* the caller without going back to the loop test, registers no record and
\* pops no item.
C12_TerminatedLeavesLoop ==
    [][\A t \in Consumers :
          (SeesTerminated(t) /\ DequeueTerminated(t)) =>
              /\ ~crashed'
              /\ pc'[t] = "idle"
              /\ UNCHANGED <<dataVars, registryVars>>]_vars

(* ---------------------------------------------------------------------- *)
(* C13: a thread is registered at most once                                *)
(* ---------------------------------------------------------------------- *)
\* the records linked in the registry, front to back
Registry == ThreadChain(threadQueue.head)

\* the threads inside the wait loop of dequeue: suspended on a record, or
\* woken and on the way to the next suspension or to the pop
InWaitLoop ==
    {t \in Consumers :
        \/ pc[t] \in {"dq_wait", "dq_woken", "dq_term", "dq_front"}
        \/ pc[t] = "dq_check" /\ first[t] # NULL}

\* C13: the registry never holds two records of the same thread, and
\* waiting() never exceeds the number of threads inside the wait loop.
C13_RegisteredAtMostOnce ==
    ~shutdown =>
        /\ \A i, j \in 1..Len(Registry) :
               i # j => nodes[Registry[i]].thread_id # nodes[Registry[j]].thread_id
        /\ waiting <= Cardinality(InWaitLoop)

(* ---------------------------------------------------------------------- *)
(* C14: the registry is ordered by waiting_on_index                        *)
(* ---------------------------------------------------------------------- *)
\* the waiting_on_index values along the registry, front to back
RegistryIndices == [i \in 1..Len(Registry) |-> nodes[Registry[i]].waiting_on_index]

StrictlyIncreasing(s) == \A i, j \in 1..Len(s) : i < j => s[i] < s[j]

\* C14: the waiting_on_index values of the registered records are strictly
\* increasing from front to back, and a record that is registered gets
\* items_enqueued + waiting count as read at that moment.
C14_RegistryOrdered ==
    /\ [](~crashed => StrictlyIncreasing(RegistryIndices))
    /\ [][Len(nodes') > Len(nodes) =>
            /\ Len(nodes') = Len(nodes) + 1
            /\ Last(nodes').waiting_on_index = dataQueue.items_enqueued + waiting
            /\ Last(Registry') = Len(nodes')]_vars

(* ---------------------------------------------------------------------- *)
(* C15: enqueue signals a live front waiter                                *)
(* ---------------------------------------------------------------------- *)
\* the front record of the registry exists and was not released
FrontExists == threadQueue.head # NULL /\ ~nodes[threadQueue.head].freed

\* C15: whenever enqueue executes its cnd_signal, the registry has a front
\* record and that record was not removed (the least the claim asks of the
\* signalled record; that a thread is suspended on it comes on top).
C15_SignalTargetsLiveFront ==
    [][\A t \in Producers : EnqueueSignal(t) => FrontExists]_vars

(* ---------------------------------------------------------------------- *)
(* C16: a waking consumer removes only its own record                      *)
(* ---------------------------------------------------------------------- *)
\* the step of t unlinks the front record of the registry
PopsFront(t) ==
    /\ DequeueFront(t) \/ DequeueTerminated(t)
    /\ threadQueue.head # NULL
    /\ threadQueue'.head # threadQueue.head

\* C16: a thread in dequeue that pops the front of the registry removes a
\* record it registered itself, and no thread is suspended on a record that
\* was removed and released.
C16_RemovesOwnRecord ==
    /\ [][\A t \in Consumers :
            PopsFront(t) => nodes[threadQueue.head].thread_id = t]_vars
    /\ [](\A t \in Consumers : pc[t] = "dq_wait" => ~nodes[cur[t]].freed)

(* ---------------------------------------------------------------------- *)
(* C17: effect of destroyQueue                                             *)
(* ---------------------------------------------------------------------- *)
\* C17: destroyQueue holds the lock from removeAllDataElements to the end
\* of teardownThreadQueue; the first releases every item and sets size,
\* visited and items_enqueued to 0; the second marks every record of the
\* registry terminated, wakes the thread suspended on each of them and no
\* other thread, and leaves the registry empty with waiting count 0 when the
\* lock is released.
C17_ShutdownEffect ==
    /\ [](\A d \in Destroyers :
            pc[d] \in {"ds_remove", "ds_teardown"} =>
                /\ lock = d
                /\ \A i \in 1..Len(Registry) : ~nodes[Registry[i]].freed)
    /\ [][\A d \in Destroyers :
            /\ DestroyRemove(d) =>
                 /\ \A e \in 1..Len(elems) : elems'[e].freed
                 /\ DataChain(dataQueue'.head) = <<>>
                 /\ dataQueue'.tail = NULL
                 /\ size' = 0 /\ visited' = 0 /\ dataQueue'.items_enqueued = 0
                 /\ lock' = d
            /\ DestroyTeardown(d) =>
                 /\ \A i \in 1..Len(Registry) : nodes'[Registry[i]].terminated
                 /\ \A t \in Threads \ {d} :
                        pc'[t] # pc[t] <=>
                            (pc[t] = "dq_wait" /\ InChain(cur[t], Registry))
                 /\ \A t \in Threads \ {d} : pc'[t] # pc[t] => pc'[t] = "dq_woken"
                 /\ Registry' = <<>>
                 /\ threadQueue'.tail = NULL
                 /\ waiting' = 0
                 /\ UNCHANGED dataVars
                 /\ lock' = NoThread]_vars

\* destroyQueue has released an item and terminated a suspended waiter
C17_Witness ==
    /\ \E d \in Destroyers : pc[d] = "ds_mtx"
    /\ returned = <<>>
    /\ Len(elems) >= 1
    /\ \E t \in Consumers : pc[t] = "dq_woken" /\ nodes[cur[t]].terminated

=============================================================================
